---- MODULE Spec2Model ----
(***************************************************************************)
(* Homolog-set read side of the phylogenetics package.                     *)
(*                                                                         *)
(* The two merge entry points, Read._sequence_data_to_homologset and       *)
(* Read._sequence_metadata_to_homologset, are modelled from                *)
(* phylogenetics/dataio/homologsetio.py.  The HomologSet container and the *)
(* Homolog entity they operate on (add, lookup by id, next_id, max_id,     *)
(* addattr) are not part of the sources at hand and are modelled from the  *)
(* written specification (sections 3, 4.1 and 4.2).                        *)
(*                                                                         *)
(* Strings are modelled as sequences of one-character strings, so that     *)
(* formatting and parsing of identifiers are computed, not assumed.        *)
(***************************************************************************)
EXTENDS Integers, Sequences, FiniteSets, TLC

\* homologs: the HomologSet's contents, a mapping from id to Homolog.
\* max_id:   the HomologSet's counter of the highest suffix added.
\* last:     what the last call was and how it ended (op, err), how many
\*           records it applied, and the id it added (arg).
VARIABLES homologs, max_id, last

vars == <<homologs, max_id, last>>

(***************************************************************************)
(* Bounds of the model.                                                    *)
(***************************************************************************)
\* Largest numeric suffix of an identifier that is added or named in a record.
MaxSuffix == 2
\* Largest number of records in one batch.
MaxBatch == 2

(***************************************************************************)
(* Identifiers: a two-letter prefix and an 8-digit zero-padded counter.    *)
(***************************************************************************)
IdWidth == 8

Prefix == <<"X", "X">>

DigitChar == <<"0", "1", "2", "3", "4", "5", "6", "7", "8", "9">>

DigitVal(c) == (CHOOSE i \in 1..10 : DigitChar[i] = c) - 1

\* Decimal digits of n, zero-padded on the left to width w ("%0wd").
RECURSIVE ZeroPad(_, _)
ZeroPad(n, w) ==
    IF w = 0 THEN <<>>
    ELSE Append(ZeroPad(n \div 10, w - 1), DigitChar[(n % 10) + 1])

FormatId(n) == Prefix \o ZeroPad(n, IdWidth)

\* int(s) of a string of decimal digits.
RECURSIVE ParseInt(_)
ParseInt(s) ==
    IF s = <<>> THEN 0
    ELSE 10 * ParseInt(SubSeq(s, 1, Len(s) - 1)) + DigitVal(s[Len(s)])

\* Numeric suffix of an identifier: the digits after the prefix.
Suffix(id) == ParseInt(SubSeq(id, Len(Prefix) + 1, Len(id)))

Ids == {FormatId(n) : n \in 1..MaxSuffix}

(***************************************************************************)
(* Values of the model.                                                    *)
(***************************************************************************)
\* Attribute values that occur in positional records.  Every value is a
\* string; the strings that name identifiers are the ones whose choice
\* decides a lookup.  Records name the lowest and the highest identifier.
Vals == {FormatId(1), FormatId(MaxSuffix)}

SeqOld == <<"A", "S", "H">>
SeqNew == <<"A", "S", "H", "A", "S", "H">>

ACC1 == <<"A", "C", "C", "1">>
ACC2 == <<"A", "C", "C", "2">>
Cat == <<"c", "a", "t">>

(***************************************************************************)
(* Homolog (Entity): a bag of named attributes, `id` among them.           *)
(***************************************************************************)
\* Homolog.addattr(key, value): overwrite-or-insert, no validation.
addattr(attrs, key, value) ==
    [k \in (DOMAIN attrs) \cup {key} |-> IF k = key THEN value ELSE attrs[k]]

\* A freshly constructed Homolog with the given id.
NewHomolog(id) ==
    [k \in {"id", "sequence", "accver"} |->
        CASE k = "id" -> id
          [] k = "sequence" -> SeqOld
          [] OTHER -> ACC1]

(***************************************************************************)
(* HomologSet (EntityCollection).                                          *)
(***************************************************************************)
\* next_id(): prefix + zero-padded (max_id + 1); reads max_id only.
next_id(m) == FormatId(m + 1)

Max(a, b) == IF a >= b THEN a ELSE b

\* add as it would be if it left the counter alone.
add_KeepCounter(hs, m, entity) ==
    IF entity["id"] \in DOMAIN hs
    THEN [err |-> "DuplicateId", homologs |-> hs, max_id |-> m]
    ELSE [err |-> "none",
          homologs |-> [k \in (DOMAIN hs) \cup {entity["id"]} |->
                           IF k = entity["id"] THEN entity ELSE hs[k]],
          max_id |-> m]

\* add(entity): DuplicateId if the id is present; otherwise the entity is
\* inserted under its id and max_id is raised to the id's suffix when that
\* suffix exceeds it.
add(hs, m, entity) ==
    IF entity["id"] \in DOMAIN hs
    THEN [err |-> "DuplicateId", homologs |-> hs, max_id |-> m]
    ELSE [err |-> "none",
          homologs |-> [k \in (DOMAIN hs) \cup {entity["id"]} |->
                           IF k = entity["id"] THEN entity ELSE hs[k]],
          max_id |-> Max(m, Suffix(entity["id"]))]

(***************************************************************************)
(* Read: the merge entry points (homologsetio.py).                         *)
(***************************************************************************)
\* Attributes a Read object has after __init__.
ReadAttrs == {"_HomologSet"}

\* tags.index("id"): position of the first tag named `id`, 0 when there is
\* none (ValueError).  Positions count from 1 here, from 0 in the source.
TagIndex(tags) ==
    IF \E i \in 1..Len(tags) : tags[i] = "id"
    THEN CHOOSE i \in 1..Len(tags) :
            tags[i] = "id" /\ \A j \in 1..(i - 1) : tags[j] # "id"
    ELSE 0

\* for i in range(len(tags)): homolog.addattr(tags[i], attributes[i])
RECURSIVE AddTagged(_, _, _, _)
AddTagged(attrs, tags, attributes, n) ==
    IF n = 0 THEN attrs
    ELSE addattr(AddTagged(attrs, tags, attributes, n - 1), tags[n], attributes[n])

\* The loop body as it would be if the record's sequence were appended to
\* the homolog's sequence instead of replacing it.
MergePair_Append(hs, pair, tags, index) ==
    LET attributes == pair[1]
        sequence == pair[2]
    IN  IF index > Len(attributes)
        THEN [err |-> "IndexError", homologs |-> hs]
        ELSE IF Len(attributes) # Len(tags)
        THEN [err |-> "ArityMismatch", homologs |-> hs]
        ELSE IF attributes[index] \notin DOMAIN hs
        THEN [err |-> "NotFound", homologs |-> hs]
        ELSE LET id == attributes[index]
                 tagged == AddTagged(hs[id], tags, attributes, Len(tags))
                 updated == addattr(tagged, "sequence",
                                    IF "sequence" \in DOMAIN tagged
                                    THEN tagged["sequence"] \o sequence
                                    ELSE sequence)
             IN  [err |-> "none",
                  homologs |-> [k \in DOMAIN hs |-> IF k = id THEN updated ELSE hs[k]]]

\* The loop body as it would be if the record's fields replaced the
\* homolog's attributes instead of being added to them.
MergePair_Replace(hs, pair, tags, index) ==
    LET attributes == pair[1]
        sequence == pair[2]
    IN  IF index > Len(attributes)
        THEN [err |-> "IndexError", homologs |-> hs]
        ELSE IF Len(attributes) # Len(tags)
        THEN [err |-> "ArityMismatch", homologs |-> hs]
        ELSE IF attributes[index] \notin DOMAIN hs
        THEN [err |-> "NotFound", homologs |-> hs]
        ELSE LET id == attributes[index]
                 updated == addattr(AddTagged(<<>>, tags, attributes, Len(tags)),
                                    "sequence", sequence)
             IN  [err |-> "none",
                  homologs |-> [k \in DOMAIN hs |-> IF k = id THEN updated ELSE hs[k]]]

\* Body of the loop of _sequence_data_to_homologset for one pair.
MergePair(hs, pair, tags, index) ==
    LET attributes == pair[1]
        sequence == pair[2]
    IN  IF index > Len(attributes)
        THEN [err |-> "IndexError", homologs |-> hs]
        ELSE IF Len(attributes) # Len(tags)
        THEN [err |-> "ArityMismatch", homologs |-> hs]
        ELSE IF attributes[index] \notin DOMAIN hs
        THEN [err |-> "NotFound", homologs |-> hs]
        ELSE LET id == attributes[index]
                 updated == addattr(AddTagged(hs[id], tags, attributes, Len(tags)),
                                    "sequence", sequence)
             IN  [err |-> "none",
                  homologs |-> [k \in DOMAIN hs |-> IF k = id THEN updated ELSE hs[k]]]

\* The loop over the batch: the first exception ends the call; what earlier
\* pairs wrote stays written.  outcomes[i] tells what happened to pair i.
RECURSIVE MergeLoop(_, _, _, _, _)
MergeLoop(hs, data, tags, index, i) ==
    IF i > Len(data)
    THEN [err |-> "none", applied |-> Len(data), homologs |-> hs,
          outcomes |-> [j \in 1..Len(data) |-> "updated"]]
    ELSE LET r == MergePair(hs, data[i], tags, index)
         IN  IF r.err # "none"
             THEN [err |-> r.err, applied |-> i - 1, homologs |-> hs,
                   outcomes |-> [j \in 1..Len(data) |->
                                    IF j < i THEN "updated"
                                    ELSE IF j = i THEN r.err ELSE "unprocessed"]]
             ELSE MergeLoop(r.homologs, data, tags, index, i + 1)

\* The positional merge as it would be without the check for `id`: the
\* first position is taken as the id.
sequence_data_to_homologset_FirstIsId(hs, data, tags) ==
    MergeLoop(hs, data, tags, 1, 1)

\* Read._sequence_data_to_homologset(data, tags)
sequence_data_to_homologset(hs, data, tags) ==
    LET index == TagIndex(tags)
    IN  IF index = 0
        THEN [err |-> "NoIdTag", applied |-> 0, homologs |-> hs,
              outcomes |-> [j \in 1..Len(data) |-> "unprocessed"]]
        ELSE MergeLoop(hs, data, tags, index, 1)

\* Read._sequence_metadata_to_homologset(sequence_metadata): the lookup of
\* the first record reads self._Homolog, which a Read object does not have.
sequence_metadata_to_homologset(hs, sequence_metadata) ==
    IF Len(sequence_metadata) = 0
    THEN [err |-> "none", applied |-> 0, homologs |-> hs, outcomes |-> <<>>]
    ELSE LET e == IF "_Homolog" \in ReadAttrs THEN "TypeError" ELSE "AttributeError"
         IN  [err |-> e, applied |-> 0, homologs |-> hs,
              outcomes |-> [j \in 1..Len(sequence_metadata) |->
                               IF j = 1 THEN e ELSE "unprocessed"]]

(***************************************************************************)
(* Inputs.                                                                 *)
(***************************************************************************)
TagNames == {"id", "species"}

\* Tag lists of one or two names, repeated names included.
TagLists == UNION {[1..n -> TagNames] : n \in 1..2}

\* Value tuples of zero to two values: one shorter and one longer than a
\* tag list of one name, up to one shorter than a tag list of two.
Tuples == UNION {[1..n -> Vals] : n \in 0..2}

Pairs == {<<t, SeqNew>> : t \in Tuples}

SeqsOf(S, n) == UNION {[1..k -> S] : k \in 0..n}

Batches == SeqsOf(Pairs, MaxBatch)

\* Named-mapping records: with an `id`, or with none and an `accver`.
MetaRecords ==
    {[k \in {"accver"} |-> a] : a \in {ACC1, ACC2}}
    \cup {[k \in {"accver", "organism"} |-> IF k = "accver" THEN ACC1 ELSE Cat]}
    \cup {[k \in {"id"} |-> FormatId(1)]}

MetaBatches == SeqsOf(MetaRecords, MaxBatch)

(***************************************************************************)
(* The state machine.                                                      *)
(***************************************************************************)
Init ==
    /\ homologs = <<>>
    /\ max_id = 0
    /\ last = [op |-> "init", err |-> "none", applied |-> 0, arg |-> <<>>]

\* HomologSet.add of a Homolog constructed with an explicit id.
AddExplicit ==
    \E id \in Ids :
        LET r == add(homologs, max_id, NewHomolog(id))
        IN  /\ homologs' = r.homologs
            /\ max_id' = r.max_id
            /\ last' = [op |-> "add_explicit", err |-> r.err, applied |-> 0, arg |-> id]

\* HomologSet.add of a Homolog constructed with next_id().
AddNext ==
    /\ max_id < MaxSuffix
    /\ LET r == add(homologs, max_id, NewHomolog(next_id(max_id)))
       IN  /\ homologs' = r.homologs
           /\ max_id' = r.max_id
           /\ last' = [op |-> "add_next", err |-> r.err, applied |-> 0,
                       arg |-> next_id(max_id)]

\* A call of next_id() as it would be if it allocated the id it returns.
QueryNextId_Allocates ==
    /\ max_id < MaxSuffix
    /\ max_id' = max_id + 1
    /\ last' = [op |-> "next_id", err |-> "none", applied |-> 0,
                arg |-> next_id(max_id)]
    /\ UNCHANGED homologs

\* HomologSet.next_id(), called on its own: it returns the next id and
\* changes nothing.
QueryNextId ==
    /\ last' = [op |-> "next_id", err |-> "none", applied |-> 0,
                arg |-> next_id(max_id)]
    /\ UNCHANGED <<homologs, max_id>>

ReadSequenceData ==
    \E data \in Batches, tags \in TagLists :
        LET r == sequence_data_to_homologset(homologs, data, tags)
        IN  /\ homologs' = r.homologs
            /\ last' = [op |-> "sequence_data", err |-> r.err, applied |-> r.applied,
                        arg |-> <<>>]
            /\ UNCHANGED max_id

ReadSequenceMetadata ==
    \E md \in MetaBatches :
        LET r == sequence_metadata_to_homologset(homologs, md)
        IN  /\ homologs' = r.homologs
            /\ last' = [op |-> "sequence_metadata", err |-> r.err,
                        applied |-> r.applied, arg |-> <<>>]
            /\ UNCHANGED max_id

Next ==
    \/ AddExplicit
    \/ AddNext
    \/ QueryNextId
    \/ ReadSequenceData
    \/ ReadSequenceMetadata

Spec == Init /\ [][Next]_vars

(***************************************************************************)
(* Vocabulary of the properties.                                           *)
(***************************************************************************)
Keys == DOMAIN homologs

\* The call on one positional record / one named-mapping record.
OnPair(pair, tags) == sequence_data_to_homologset(homologs, <<pair>>, tags)
OnRecord(rec) == sequence_metadata_to_homologset(homologs, <<rec>>)

\* Tag lists a positional record can be merged under: `id` is among them.
IdTagLists == {tags \in TagLists : TagIndex(tags) # 0}

\* The id field of a positional record whose tuple reaches that far.
IdField(pair, tags) == pair[1][TagIndex(tags)]

\* The value a record gives to a tag: the last one written under that name.
Given(pair, tags, t) ==
    pair[1][CHOOSE i \in 1..Len(tags) :
                tags[i] = t /\ \A j \in (i + 1)..Len(tags) : tags[j] # t]

TagSet(tags) == {tags[i] : i \in 1..Len(tags)}

\* find_by_attribute, without assuming uniqueness: the ids of all homologs
\* whose attribute `name` has the given value.
Matches(name, value) ==
    {k \in Keys : name \in DOMAIN homologs[k] /\ homologs[k][name] = value}

\* A homolog after the fields of a named-mapping record are set on it.
Merged(attrs, rec) ==
    [k \in (DOMAIN attrs) \cup (DOMAIN rec) |->
        IF k \in DOMAIN rec THEN rec[k] ELSE attrs[k]]

(***************************************************************************)
(* C1 - Uniqueness.  In every collection reached by adds and merges, no two *)
(* homologs carry the same id.                                             *)
(***************************************************************************)
C1_UniqueIds ==
    \A k1 \in Keys, k2 \in Keys :
        homologs[k1]["id"] = homologs[k2]["id"] => k1 = k2

(***************************************************************************)
(* C2 - Id monotonicity.  In every reachable state next_id() is an id that *)
(* is not present in the collection (one that add would accept), whether   *)
(* the ids present were added explicitly, above or below max_id, or were   *)
(* allocated.                                                              *)
(***************************************************************************)
C2_NextIdFresh == next_id(max_id) \notin Keys

\* An explicit-id add below max_id has just succeeded, next to an id that
\* was added above the counter.
C2_Witness ==
    /\ last.op = "add_explicit"
    /\ last.err = "none"
    /\ Suffix(last.arg) < max_id
    /\ FormatId(max_id) \in Keys

(***************************************************************************)
(* C3 - Idempotent re-import.  From every reachable collection, merging a  *)
(* batch a second time leaves the ids and every attribute value as the     *)
(* first merge left them.                                                  *)
(***************************************************************************)
C3_Idempotent ==
    /\ \A data \in Batches, tags \in TagLists :
          LET once == sequence_data_to_homologset(homologs, data, tags)
              twice == sequence_data_to_homologset(once.homologs, data, tags)
          IN  twice.homologs = once.homologs
    /\ \A md \in MetaBatches :
          LET once == sequence_metadata_to_homologset(homologs, md)
              twice == sequence_metadata_to_homologset(once.homologs, md)
          IN  twice.homologs = once.homologs

\* A positional batch of two records has been merged in full, and a homolog
\* carries the sequence and the species the batch gave it.
C3_Witness ==
    /\ last.op = "sequence_data"
    /\ last.err = "none"
    /\ last.applied = 2
    /\ \E k \in Keys :
          /\ homologs[k]["sequence"] = SeqNew
          /\ "species" \in DOMAIN homologs[k]

(***************************************************************************)
(* C4 - Arity rejection.  A positional record whose tuple is longer or     *)
(* shorter than the tag list is rejected with ArityMismatch and changes    *)
(* and creates nothing; what the records before it wrote stays written.    *)
(***************************************************************************)
C4_ArityRejected ==
    \A data \in Batches, tags \in IdTagLists :
        LET r == sequence_data_to_homologset(homologs, data, tags)
        IN  \A i \in 1..Len(data) :
                (/\ Len(data[i][1]) # Len(tags)
                 /\ \A j \in 1..(i - 1) : r.outcomes[j] = "updated")
                => /\ r.outcomes[i] = "ArityMismatch"
                   /\ r.homologs =
                        sequence_data_to_homologset(
                            homologs, SubSeq(data, 1, i - 1), tags).homologs

(***************************************************************************)
(* C5 - Partial failure.  When a record of a batch fails with              *)
(* ArityMismatch, the failure is that record's outcome and every later     *)
(* record of the batch is still processed.                                 *)
(***************************************************************************)
C5_BatchContinues ==
    \A data \in Batches, tags \in IdTagLists :
        LET r == sequence_data_to_homologset(homologs, data, tags)
        IN  \A i \in 1..Len(data) :
                r.outcomes[i] = "ArityMismatch"
                => \A j \in (i + 1)..Len(data) : r.outcomes[j] # "unprocessed"

C7_CreateWithId ==
    \A pair \in Pairs, tags \in IdTagLists :
        (/\ Len(pair[1]) = Len(tags)
         /\ IdField(pair, tags) \notin Keys)
        => LET id == IdField(pair, tags)
               r == OnPair(pair, tags)
           IN  /\ r.err = "none"
               /\ DOMAIN r.homologs = Keys \cup {id}
               /\ r.homologs[id]["id"] = id
               /\ max_id = Max(max_id, Suffix(id))

(***************************************************************************)
(* C8 - Secondary-key update.  A record with no id whose accver is the     *)
(* accver of exactly one homolog is merged into that homolog: none is      *)
(* created, max_id stays, and the homolog has its previous attributes and  *)
(* the record's.                                                           *)
(***************************************************************************)
C8_SecondaryKeyUpdate ==
    \A rec \in MetaRecords :
        (/\ "id" \notin DOMAIN rec
         /\ "accver" \in DOMAIN rec
         /\ Cardinality(Matches("accver", rec["accver"])) = 1)
        => LET k == CHOOSE m \in Matches("accver", rec["accver"]) : TRUE
               r == OnRecord(rec)
           IN  /\ r.err = "none"
               /\ DOMAIN r.homologs = Keys
               /\ r.homologs[k] = Merged(homologs[k], rec)

(***************************************************************************)
(* C9 - Ambiguous secondary key.  A record with no id whose accver is the  *)
(* accver of two or more homologs raises no error, modifies none of them   *)
(* and creates one homolog under a freshly allocated id.                   *)
(***************************************************************************)
C9_AmbiguousCreates ==
    \A rec \in MetaRecords :
        (/\ "id" \notin DOMAIN rec
         /\ "accver" \in DOMAIN rec
         /\ Cardinality(Matches("accver", rec["accver"])) >= 2)
        => LET r == OnRecord(rec)
           IN  /\ r.err = "none"
               /\ \A k \in Keys : r.homologs[k] = homologs[k]
               /\ DOMAIN r.homologs = Keys \cup {next_id(max_id)}

(***************************************************************************)
(* C10 - Allocation order.  A batch of n records, none with an id or a     *)
(* matching secondary key, merged at max_id = m creates the ids with       *)
(* suffixes m+1 .. m+n, record i under suffix m+i.                         *)
(***************************************************************************)
C10_AllocationOrder ==
    \A md \in MetaBatches :
        (/\ \A i \in 1..Len(md) :
               /\ "id" \notin DOMAIN md[i]
               /\ Matches("accver", md[i]["accver"]) = {}
         /\ \A i \in 1..Len(md), j \in 1..Len(md) :
               md[i]["accver"] = md[j]["accver"] => i = j)
        => LET r == sequence_metadata_to_homologset(homologs, md)
           IN  /\ r.err = "none"
               /\ DOMAIN r.homologs =
                     Keys \cup {FormatId(max_id + i) : i \in 1..Len(md)}
               /\ \A i \in 1..Len(md) :
                     r.homologs[FormatId(max_id + i)]["accver"] = md[i]["accver"]

NL == "\n"

Whitespace == {" ", "\t", NL}

UpperChars ==
    {"A", "B", "C", "D", "E", "F", "G", "H", "I", "J", "K", "L", "M",
     "N", "O", "P", "Q", "R", "S", "T", "U", "V", "W", "X", "Y", "Z"}

\* The character class [A-Z\-\n] of REGEX.
SeqClass == UpperChars \cup {"-", NL}

\* str.strip(): leading and trailing whitespace removed.
RECURSIVE LStrip(_)
LStrip(s) ==
    IF s # <<>> /\ s[1] \in Whitespace THEN LStrip(Tail(s)) ELSE s

RECURSIVE RStrip(_)
RStrip(s) ==
    IF s # <<>> /\ s[Len(s)] \in Whitespace
    THEN RStrip(SubSeq(s, 1, Len(s) - 1))
    ELSE s

Strip(s) == RStrip(LStrip(s))

\* sep.join(fields)
RECURSIVE Join(_, _)
Join(fields, sep) ==
    IF Len(fields) = 0 THEN <<>>
    ELSE IF Len(fields) = 1 THEN fields[1]
    ELSE fields[1] \o <<sep>> \o Join(Tail(fields), sep)

\* s.split(sep): the fields between the separators, at least one.
RECURSIVE Split(_, _)
Split(s, sep) ==
    IF \A i \in 1..Len(s) : s[i] # sep THEN <<s>>
    ELSE LET i == CHOOSE k \in 1..Len(s) :
                     s[k] = sep /\ \A j \in 1..(k - 1) : s[j] # sep
         IN  <<SubSeq(s, 1, i - 1)>> \o Split(SubSeq(s, i + 1, Len(s)), sep)

\* s.replace(c, "")
RECURSIVE Remove(_, _)
Remove(s, c) ==
    IF s = <<>> THEN <<>>
    ELSE IF s[1] = c THEN Remove(Tail(s), c)
    ELSE <<s[1]>> \o Remove(Tail(s), c)

\* Length of the longest run of characters of S in data from position p on.
RECURSIVE RunLen(_, _, _)
RunLen(data, p, S) ==
    IF p <= Len(data) /\ data[p] \in S THEN 1 + RunLen(data, p + 1, S) ELSE 0

\* Length of the longest run of characters other than newline from p on.
RECURSIVE LineLen(_, _)
LineLen(data, p) ==
    IF p <= Len(data) /\ data[p] # NL THEN 1 + LineLen(data, p + 1) ELSE 0

\* REGEX = ">.+\n[A-Z\-\n]+" matched at position p: the position of the
\* last character of the match, 0 when there is no match at p.
MatchEnd(data, p) ==
    IF data[p] # ">" THEN 0
    ELSE LET h == LineLen(data, p + 1)
             q == p + h + 2
         IN  IF h = 0 \/ p + h + 1 > Len(data) THEN 0
             ELSE LET n == RunLen(data, q, SeqClass)
                  IN  IF n = 0 THEN 0 ELSE q + n - 1

\* REGEX.findall(data): the matches from left to right, not overlapping.
RECURSIVE FindAll(_, _)
FindAll(data, p) ==
    IF p > Len(data) THEN <<>>
    ELSE LET e == MatchEnd(data, p)
         IN  IF e = 0 THEN FindAll(data, p + 1)
             ELSE <<SubSeq(data, p, e)>> \o FindAll(data, e + 1)

\* homolog[tags[i]] = header[i] for i in range(len(tags))
RECURSIVE HeaderDict(_, _, _)
HeaderDict(tags, header, n) ==
    IF n = 0 THEN <<>>
    ELSE LET d == HeaderDict(tags, header, n - 1)
         IN  [k \in (DOMAIN d) \cup {tags[n]} |->
                 IF k = tags[n] THEN header[n] ELSE d[k]]

\* The body of read's loop for one match m.
ReadMatch(m, tags) ==
    LET index == CHOOSE k \in 1..Len(m) : m[k] = NL /\ \A j \in 1..(k - 1) : m[j] # NL
        header == Split(Strip(SubSeq(m, 2, index - 1)), "|")
        sequence == Remove(Strip(SubSeq(m, index + 1, Len(m))), NL)
    IN  IF Len(tags) > Len(header)
        THEN [err |-> "IndexError", homolog |-> <<>>]
        ELSE LET d == HeaderDict(tags, header, Len(tags))
             IN  [err |-> "none",
                  homolog |-> [k \in (DOMAIN d) \cup {"sequence"} |->
                                  IF k = "sequence" THEN sequence ELSE d[k]]]

RECURSIVE ReadLoop(_, _, _)
ReadLoop(matches, tags, sequences) ==
    IF matches = <<>> THEN [err |-> "none", sequences |-> sequences]
    ELSE LET r == ReadMatch(Head(matches), tags)
         IN  IF r.err # "none" THEN [err |-> r.err, sequences |-> <<>>]
             ELSE ReadLoop(Tail(matches), tags, Append(sequences, r.homolog))

\* fasta.read(data, tags): a list of dictionaries, one per match.
read(data, tags) == ReadLoop(FindAll(data, 1), tags, <<>>)

\* The loop of write and its return, for a list `sequences` of pairs.
RECURSIVE WriteLoop(_)
WriteLoop(sequences) ==
    IF sequences = <<>> THEN <<>>
    ELSE LET s == Head(sequences)
             header_str == Strip(Join(s[1], "|"))
         IN  <<">">> \o header_str \o <<NL>> \o s[2] \o <<NL>>
             \o WriteLoop(Tail(sequences))

\* The names bound when the loop of write starts: its parameter, its local
\* `data`, and the module's globals.
WriteScope == {"metadata", "data", "re", "REGEX", "read", "write"}

\* fasta.write(metadata): the loop iterates over `sequences`, a name that
\* is bound nowhere, so the call raises NameError before it formats
\* anything.
write(metadata) ==
    IF "sequences" \notin WriteScope
    THEN [err |-> "NameError", text |-> <<>>]
    ELSE [err |-> "none", text |-> Strip(WriteLoop(metadata))]

\* Read.fasta(data, tags): fasta.read is called with its default tags, and
\* its dictionaries are handed to the positional merge, which indexes each
\* of them with 0.
fasta(hs, data, tags) ==
    LET sequence_data == read(data, <<"defline">>)
    IN  IF sequence_data.err # "none"
        THEN [err |-> sequence_data.err, homologs |-> hs]
        ELSE IF TagIndex(tags) = 0 THEN [err |-> "NoIdTag", homologs |-> hs]
        ELSE IF sequence_data.sequences = <<>> THEN [err |-> "none", homologs |-> hs]
        ELSE [err |-> "KeyError", homologs |-> hs]

\* Well-formed records: header fields without "|" or newline, sequences of
\* uppercase letters and "-"; all records of a list have as many fields.
FastaSeqs == {SeqOld, <<"A", "-", "C">>}

FastaRecords(n) == {<<h, q>> : h \in [1..n -> Vals], q \in FastaSeqs}

FastaRecordLists == UNION {SeqsOf(FastaRecords(n), MaxBatch) : n \in 1..2}

\* Texts handed to read: every well-formed FASTA text of the records above,
\* and texts the pattern matches in part or not at all.
FastaTexts ==
    {Strip(WriteLoop(r)) : r \in FastaRecordLists}
    \cup {<<">", "x">>,
          <<">", "x", NL, "a">>,
          <<">", "x", " ", NL, "A", NL, "B", NL, NL, ">", ">", NL, "x", ">", "y", NL, "-">>}

FastaTagLists == {<<"defline">>, <<"id">>, <<"id", "species">>}

\* The tag list naming the fields of a record with n header fields.
FieldTags(n) == SubSeq(<<"id", "species">>, 1, n)

InitFasta ==
    /\ homologs = <<>>
    /\ max_id = 0
    /\ last \in {[op |-> "records", err |-> "none", applied |-> 0, arg |-> r] :
                    r \in FastaRecordLists}
                \cup {[op |-> "text", err |-> "none", applied |-> 0, arg |-> t] :
                         t \in FastaTexts}

\* fasta.write(records)
FastaWrite ==
    /\ last.op = "records"
    /\ LET w == write(last.arg)
       IN  last' = [op |-> "fasta.write", err |-> w.err, applied |-> 0,
                    arg |-> <<last.arg, w.text>>]
    /\ UNCHANGED <<homologs, max_id>>

\* fasta.read(data, tags), on a given text or on the text write returned.
FastaRead ==
    /\ \/ last.op = "text"
       \/ last.op = "fasta.write" /\ last.err = "none"
    /\ \E tags \in FastaTagLists :
          LET data == IF last.op = "text" THEN last.arg ELSE last.arg[2]
              r == read(data, tags)
          IN  last' = [op |-> "fasta.read", err |-> r.err,
                       applied |-> Len(r.sequences),
                       arg |-> <<data, tags, r.sequences>>]
    /\ UNCHANGED <<homologs, max_id>>

\* Read.fasta(data, tags)
ReadFasta ==
    /\ last.op = "text"
    /\ \E tags \in TagLists :
          LET r == fasta(homologs, last.arg, tags)
          IN  /\ homologs' = r.homologs
              /\ last' = [op |-> "Read.fasta", err |-> r.err, applied |-> 0,
                          arg |-> <<last.arg, tags>>]
    /\ UNCHANGED max_id

NextFasta == FastaWrite \/ FastaRead \/ ReadFasta

SpecFasta == InitFasta /\ [][NextFasta]_vars

\* The records read(data, tags) returns are the records recs, field by
\* field and in order.
SameRecords(sequences, recs, tags) ==
    /\ Len(sequences) = Len(recs)
    /\ \A i \in 1..Len(recs) :
          /\ DOMAIN sequences[i] = TagSet(tags) \cup {"sequence"}
          /\ sequences[i]["sequence"] = recs[i][2]
          /\ \A j \in 1..Len(tags) : sequences[i][tags[j]] = recs[i][1][j]

(***************************************************************************)
(* C12  FASTA round trip: after fasta.write of a list of well-formed       *)
(* records, the call has returned a text, and fasta.read of that text      *)
(* under the records' tags returns the same records: same count, same      *)
(* order, same field values and sequence.                                  *)
(***************************************************************************)
C12_RoundTrip ==
    last.op = "fasta.write"
    => /\ last.err = "none"
       /\ LET recs == last.arg[1]
              tags == FieldTags(IF recs = <<>> THEN 1 ELSE Len(recs[1][1]))
              r == read(last.arg[2], tags)
          IN  /\ r.err = "none"
              /\ SameRecords(r.sequences, recs, tags)

(***************************************************************************)
(* C13  The positional merge requires the tag list to contain `id`: for    *)
(* every tag list without it and every batch, the call fails before the    *)
(* first record is examined (no record is applied, none is rejected on its *)
(* own account) and the homologs are exactly as they were.                 *)
(***************************************************************************)
C13_IdTagRequired ==
    \A tags \in {t \in TagLists : "id" \notin TagSet(t)} : \A data \in Batches :
        LET r == sequence_data_to_homologset(homologs, data, tags)
        IN  /\ r.err = "NoIdTag"
            /\ r.applied = 0
            /\ r.homologs = homologs
            /\ \A i \in 1..Len(data) : r.outcomes[i] = "unprocessed"

\* A merge under a tag list without `id` has just failed on a set that
\* holds homologs.
C13_Witness ==
    /\ last.op = "sequence_data"
    /\ last.err = "NoIdTag"
    /\ last.applied = 0
    /\ Keys # {}

====
